---------------------------- MODULE Spec2Model ----------------------------
(***************************************************************************)
(* c-store: a namespaced key-value store.                                  *)
(*                                                                         *)
(* Indexed Backend (lib/storage, sqlite3): one table key_value_store with  *)
(* PRIMARY KEY (namespace, key) and value TEXT NOT NULL holding            *)
(* JSON.stringify(value).  Every storage call builds its statement         *)
(* synchronously (Invoke), the statement runs atomically on the database   *)
(* at some later moment (Execute), and its callback settles the promise    *)
(* (Settle).                                                               *)
(*                                                                         *)
(* Document Backend (one JSON document, load-mutate-store): its source is  *)
(* not part of the tree; it is modelled from the specification.            *)
(***************************************************************************)
EXTENDS Integers, Sequences, FiniteSets

(***************************************************************************)
(* JavaScript values.  Every value is a record of one shape:               *)
(*   t      the type tag                                                   *)
(*   n      the number (t = "number"), else 0                              *)
(*   s      the string (t = "string"), "true"/"false" (t = "boolean")      *)
(*   items  the elements (t = "array")                                     *)
(*   fields the own properties, [k, v] records in order (t = "object")     *)
(***************************************************************************)
Scalar(t, n, s) == [t |-> t, n |-> n, s |-> s, items |-> <<>>, fields |-> <<>>]

Undefined == Scalar("undefined", 0, "")

Null == Scalar("null", 0, "")

True == Scalar("boolean", 0, "true")

Num(n) == Scalar("number", n, "")

\* NaN and -0 are numbers of the language that JSON text cannot carry.
NaN == Scalar("nan", 0, "")

NegZero == Scalar("negzero", 0, "")

Str(s) == Scalar("string", 0, s)

Arr(items) == [t |-> "array", n |-> 0, s |-> "", items |-> items, fields |-> <<>>]

\* A JavaScript string holding a stored text as it is (the undecoded row value).
RawText(text) == [t |-> "text", n |-> 0, s |-> "", items |-> text, fields |-> <<>>]

Obj(fields) == [t |-> "object", n |-> 0, s |-> "", items |-> <<>>, fields |-> fields]

Field(k, v) == [k |-> k, v |-> v]

(***************************************************************************)
(* JSON text, as its sequence of tokens.  A number token and a string      *)
(* token with the same characters are different texts (the string one is   *)
(* quoted).                                                                *)
(***************************************************************************)
Tok(k, s, n) == [k |-> k, s |-> s, n |-> n]

Lit(s) == Tok("lit", s, 0)

NumTok(n) == Tok("num", "", n)

StrTok(s) == Tok("str", s, 0)

Punct(s) == Tok("punct", s, 0)

\* The text a value has inside an array or as a property value: undefined and
\* NaN are written null there, -0 is written 0.
RECURSIVE SerializeJSONProperty(_)
RECURSIVE SerializeJSONArray(_, _)
RECURSIVE SerializeJSONObject(_, _)
SerializeJSONProperty(v) ==
    CASE v.t = "null"      -> << Lit("null") >>
      [] v.t = "undefined" -> << Lit("null") >>
      [] v.t = "nan"       -> << Lit("null") >>
      [] v.t = "negzero"   -> << NumTok(0) >>
      [] v.t = "boolean"   -> << Lit(v.s) >>
      [] v.t = "number"    -> << NumTok(v.n) >>
      [] v.t = "string"    -> << StrTok(v.s) >>
      [] v.t = "array"     -> << Punct("[") >> \o SerializeJSONArray(v.items, 1) \o << Punct("]") >>
      [] v.t = "object"    -> << Punct("{") >> \o SerializeJSONObject(v.fields, TRUE) \o << Punct("}") >>

SerializeJSONArray(items, i) ==
    IF i > Len(items) THEN << >>
    ELSE (IF i > 1 THEN << Punct(",") >> ELSE << >>)
         \o SerializeJSONProperty(items[i])
         \o SerializeJSONArray(items, i + 1)

\* A property whose value is undefined is left out of the object's text.
SerializeJSONObject(fields, first) ==
    IF fields = << >> THEN << >>
    ELSE IF Head(fields).v.t = "undefined"
         THEN SerializeJSONObject(Tail(fields), first)
         ELSE (IF first THEN << >> ELSE << Punct(",") >>)
              \o << StrTok(Head(fields).k), Punct(":") >>
              \o SerializeJSONProperty(Head(fields).v)
              \o SerializeJSONObject(Tail(fields), FALSE)

\* A string is written without its quotes.
JSONstringifyUnquoted(value) ==
    IF value.t = "undefined"
    THEN [defined |-> FALSE, text |-> << >>]
    ELSE IF value.t = "string"
    THEN [defined |-> TRUE, text |-> << Lit(value.s) >>]
    ELSE [defined |-> TRUE, text |-> SerializeJSONProperty(value)]

\* undefined is encoded as the text null.
JSONstringifyUndefinedAsNull(value) ==
    IF value.t = "undefined"
    THEN [defined |-> TRUE, text |-> << Lit("null") >>]
    ELSE [defined |-> TRUE, text |-> SerializeJSONProperty(value)]

\* JSON.stringify(value): [defined, text].  For undefined the result is the
\* JavaScript undefined, not a text.
JSONstringify(value) ==
    IF value.t = "undefined"
    THEN [defined |-> FALSE, text |-> << >>]
    ELSE [defined |-> TRUE, text |-> SerializeJSONProperty(value)]

(***************************************************************************)
(* JSON.parse(text): recursive descent over the tokens.  A parse step      *)
(* returns [ok, value, rest]; the text is valid when one value is parsed   *)
(* and no token is left.                                                   *)
(***************************************************************************)
ParseFail == [ok |-> FALSE, value |-> Undefined, rest |-> << >>]

ParseOk(v, rest) == [ok |-> TRUE, value |-> v, rest |-> rest]

IsPunct(toks, s) == toks # << >> /\ Head(toks).k = "punct" /\ Head(toks).s = s

RECURSIVE ParseValue(_)
RECURSIVE ParseElements(_, _)
RECURSIVE ParseMembers(_, _)
ParseValue(toks) ==
    IF toks = << >> THEN ParseFail
    ELSE LET h == Head(toks)
             r == Tail(toks)
         IN CASE h.k = "lit" /\ h.s = "null" -> ParseOk(Null, r)
              [] h.k = "lit" /\ h.s \in {"true", "false"} -> ParseOk(Scalar("boolean", 0, h.s), r)
              [] h.k = "num" -> ParseOk(Num(h.n), r)
              [] h.k = "str" -> ParseOk(Str(h.s), r)
              [] h.k = "punct" /\ h.s = "[" ->
                   IF IsPunct(r, "]") THEN ParseOk(Arr(<< >>), Tail(r))
                   ELSE ParseElements(r, << >>)
              [] h.k = "punct" /\ h.s = "{" ->
                   IF IsPunct(r, "}") THEN ParseOk(Obj(<< >>), Tail(r))
                   ELSE ParseMembers(r, << >>)
              [] OTHER -> ParseFail

ParseElements(toks, acc) ==
    LET e == ParseValue(toks)
    IN IF ~e.ok THEN ParseFail
       ELSE IF IsPunct(e.rest, ",") THEN ParseElements(Tail(e.rest), Append(acc, e.value))
       ELSE IF IsPunct(e.rest, "]") THEN ParseOk(Arr(Append(acc, e.value)), Tail(e.rest))
       ELSE ParseFail

ParseMembers(toks, acc) ==
    IF Len(toks) < 2 \/ toks[1].k # "str" \/ ~IsPunct(Tail(toks), ":") THEN ParseFail
    ELSE LET e == ParseValue(Tail(Tail(toks)))
         IN IF ~e.ok THEN ParseFail
            ELSE IF IsPunct(e.rest, ",")
                 THEN ParseMembers(Tail(e.rest), Append(acc, Field(toks[1].s, e.value)))
            ELSE IF IsPunct(e.rest, "}")
                 THEN ParseOk(Obj(Append(acc, Field(toks[1].s, e.value))), Tail(e.rest))
            ELSE ParseFail

\* JSON.parse(text): [ok, value]; ok = FALSE is the SyntaxError it throws.
JSONparse(text) ==
    LET p == ParseValue(text)
    IN IF p.ok /\ p.rest = << >>
       THEN [ok |-> TRUE, value |-> p.value]
       ELSE [ok |-> FALSE, value |-> Undefined]

(***************************************************************************)
(* The inputs the callers draw from.                                       *)
(***************************************************************************)
\* Namespace names, listed in ascending order of SQLite's BINARY collation.
NamespaceOrder == << "orders", "users" >>

Namespaces == { NamespaceOrder[i] : i \in DOMAIN NamespaceOrder }

Keys == { "john", "__proto__" }

\* A number, the string with the same characters, and the value with no JSON text.
Values == { Num(42), Str("42"), Undefined }

\* The values of the codec check: every JSON type, nested, and the values of
\* the language that JSON text cannot carry.
CodecValues ==
    { Null, True, Num(42), Str("42"), Str("null"),
      Arr(<< >>), Arr(<< Num(42), Str("42") >>), Arr(<< Arr(<< Null >>) >>),
      Obj(<< >>), Obj(<< Field("a", Num(42)), Field("b", Arr(<< True >>)) >>),
      Undefined, NaN, NegZero, Arr(<< Undefined >>), Obj(<< Field("a", Undefined) >>) }

\* The number of callers (requests) that make storage calls.
MaxCalls == 3

Calls == 1 .. MaxCalls

(***************************************************************************)
(* State.                                                                  *)
(*   table     the rows of key_value_store: [namespace, key, value]        *)
(*   calls     per caller, the storage call it has made and how far it is  *)
(*   possible  history: per (namespace, key), the outcomes the calls made  *)
(*             so far allow a read to return (see Touch)                   *)
(*   doc, docCalls, lock, locking   the Document Backend (further down)    *)
(***************************************************************************)
VARIABLES table, calls, possible, doc, docCalls, lock, locking

vars == << table, calls, possible, doc, docCalls, lock, locking >>

docVars == << doc, docCalls, lock, locking >>

Row(namespace, key, value) == [namespace |-> namespace, key |-> key, value |-> value]

\* Marks a set of outcomes that allows every result.
AnyOutcome == Scalar("any", 0, "")

NoExpectation == [k \in Keys |-> { AnyOutcome }]

\* What a route has sent: res.status(status).json(...) with the text of its body.
NoResponse == [route |-> "", status |-> 0, body |-> << >>]

\* The request an answer was sent for: method, path segments, body text.
NoRequest == [method |-> "", path |-> << >>, body |-> << >>]

\* A caller that has no call: pc is idle, queued (statement built, promise
\* pending), executed (statement has run, callback not yet), settled.
\* changes is sqlite's this.changes, overlapped whether another call was in
\* flight while this one was, exp what the history lets a read return.
Idle ==
    [pc |-> "idle", op |-> "none", namespace |-> "", key |-> "", hasKey |-> FALSE,
     value |-> Undefined, jsonValue |-> [defined |-> FALSE, text |-> << >>],
     error |-> FALSE, rows |-> {}, changes |-> 0, promise |-> "none",
     result |-> Undefined, mapping |-> << >>, list |-> << >>,
     overlapped |-> FALSE, exp |-> NoExpectation, response |-> NoResponse,
     request |-> NoRequest]

InFlight(call) == call.pc \in { "queued", "executed" }

Mutates(call) == call.op \in { "setValue", "deleteValue", "deleteNamespace" }

\* The call writes (or may write) the row of (namespace, key).
Touches(call, namespace, key) ==
    /\ Mutates(call)
    /\ call.namespace = namespace
    /\ call.op = "deleteNamespace" \/ call.key = key

WriterInFlight(namespace, key) ==
    \E c \in Calls : InFlight(calls[c]) /\ Touches(calls[c], namespace, key)

(***************************************************************************)
(* The SQL statements.                                                     *)
(***************************************************************************)
\* INSERT without OR REPLACE semantics on the key: a second row for the pair.
InsertPlain(t, namespace, key, value) == t \cup { Row(namespace, key, value) }

\* INSERT OR IGNORE: an existing row of the pair is kept.
InsertOrIgnore(t, namespace, key, value) ==
    IF \E r \in t : r.namespace = namespace /\ r.key = key
    THEN t
    ELSE t \cup { Row(namespace, key, value) }

\* The namespace is replaced as a whole by the one new row.
InsertReplacingNamespace(t, namespace, key, value) ==
    { r \in t : r.namespace # namespace } \cup { Row(namespace, key, value) }

\* INSERT OR REPLACE INTO key_value_store (namespace, key, value) VALUES (?, ?, ?)
\* The row with the same primary key, if any, is deleted before the insert.
InsertOrReplace(t, namespace, key, value) ==
    { r \in t : ~(r.namespace = namespace /\ r.key = key) }
        \cup { Row(namespace, key, value) }

\* SELECT value FROM key_value_store WHERE namespace = ? AND key = ?
SelectValue(t, namespace, key) ==
    { r \in t : r.namespace = namespace /\ r.key = key }

\* SELECT key, value FROM key_value_store WHERE namespace = ?
SelectNamespace(t, namespace) == { r \in t : r.namespace = namespace }

\* DELETE ... WHERE namespace = ?: the key is not compared.
DeleteRowWholeNamespace(t, namespace, key) == { r \in t : r.namespace # namespace }

\* DELETE ... WHERE key = ?: the namespace is not compared.
DeleteRowAnyNamespace(t, namespace, key) == { r \in t : r.key # key }

\* DELETE FROM key_value_store WHERE namespace = ? AND key = ?
DeleteRow(t, namespace, key) ==
    { r \in t : ~(r.namespace = namespace /\ r.key = key) }

\* DELETE FROM key_value_store: no WHERE clause.
DeleteRowsEverywhere(t, namespace) == { r \in t : FALSE }

\* DELETE FROM key_value_store WHERE namespace = ?
DeleteRows(t, namespace) == { r \in t : r.namespace # namespace }

Rank(namespace) == CHOOSE i \in DOMAIN NamespaceOrder : NamespaceOrder[i] = namespace

RECURSIVE OrderByDesc(_)
\* ORDER BY namespace DESC.
OrderByDesc(S) ==
    IF S = {} THEN << >>
    ELSE LET most == CHOOSE x \in S : \A y \in S : Rank(x) >= Rank(y)
         IN << most >> \o OrderByDesc(S \ { most })

RECURSIVE OrderBy(_)
\* ORDER BY namespace: ascending in the BINARY collation.
OrderBy(S) ==
    IF S = {} THEN << >>
    ELSE LET least == CHOOSE x \in S : \A y \in S : Rank(x) <= Rank(y)
         IN << least >> \o OrderBy(S \ { least })

\* SELECT DISTINCT namespace FROM key_value_store ORDER BY namespace
SelectDistinctNamespaces(t) == OrderBy({ r.namespace : r \in t })

(***************************************************************************)
(* What the callbacks of getValue make of the rows.                        *)
(***************************************************************************)
\* try { JSON.parse(row.value) } catch { row.value }
ParseOrRaw(text) ==
    LET p == JSONparse(text)
    IN IF p.ok THEN p.value ELSE RawText(text)

\* No row resolves null instead of undefined.
RowResultNull(rows) ==
    IF rows = {} THEN Null
    ELSE ParseOrRaw((CHOOSE r \in rows : TRUE).value)

\* The callback of db.get: no row resolves undefined.
RowResult(rows) ==
    IF rows = {} THEN Undefined
    ELSE ParseOrRaw((CHOOSE r \in rows : TRUE).value)

\* The callback of db.all: result = {}; result[row.key] = ... for each row.
\* An assignment to "__proto__" on a plain object goes to the prototype
\* setter and creates no own property.
RowsResult(rows) ==
    [k \in { r.key : r \in rows } \ { "__proto__" } |->
        ParseOrRaw((CHOOSE r \in rows : r.key = k).value)]

(***************************************************************************)
(* History.  A mutating call adds its effect to the outcomes of the pairs  *)
(* it touches; when no other writer of the pair is in flight it replaces   *)
(* them, since it runs after every settled call.  A value that JSON text   *)
(* does not keep (NaN, -0, undefined inside a value) allows every outcome;  *)
(* setValue of undefined itself is rejected and is no set at all.          *)
(***************************************************************************)
JSONTypes == { "null", "boolean", "number", "string", "array", "object" }

RECURSIVE JSONRepresentable(_)
JSONRepresentable(v) ==
    /\ v.t \in JSONTypes
    /\ \A i \in DOMAIN v.items : JSONRepresentable(v.items[i])
    /\ \A i \in DOMAIN v.fields : JSONRepresentable(v.fields[i].v)

Effect(op, value) ==
    IF op = "setValue"
    THEN (IF JSONRepresentable(value) THEN { value } ELSE { AnyOutcome })
    ELSE { Undefined }

\* setValue(ns, k, undefined) binds no text and never stores a row.
StoresNothing(op, value) == op = "setValue" /\ value.t = "undefined"

Touch(op, namespace, key, value) ==
    [pk \in Namespaces \X Keys |->
        IF /\ pk[1] = namespace /\ (op = "deleteNamespace" \/ pk[2] = key)
           /\ ~StoresNothing(op, value)
        THEN (IF WriterInFlight(pk[1], pk[2]) THEN possible[pk] ELSE {})
                 \cup Effect(op, value)
        ELSE possible[pk]]

\* What a read made now may return: the outcomes of the pair, unless a
\* writer of the pair is still in flight.
Expect(namespace) ==
    [k \in Keys |->
        IF WriterInFlight(namespace, k) THEN { AnyOutcome }
        ELSE possible[<< namespace, k >>]]

\* A read that has not run yet may also see the effect of a later writer.
Widen(call, op, namespace, key, value) ==
    IF /\ call.pc = "queued" /\ call.op = "getValue" /\ call.namespace = namespace
       /\ ~StoresNothing(op, value)
    THEN [call EXCEPT !.exp =
            [k \in Keys |->
                IF op = "deleteNamespace" \/ k = key
                THEN call.exp[k] \cup Effect(op, value)
                ELSE call.exp[k]]]
    ELSE call

Allows(outcomes, result) == AnyOutcome \in outcomes \/ result \in outcomes

\* The one outcome the history determines, if it does.
Determined(outcomes) == Cardinality(outcomes) = 1 /\ AnyOutcome \notin outcomes

(***************************************************************************)
(* The synchronous part of each storage function: the statement is built   *)
(* and queued, the promise is pending.                                     *)
(***************************************************************************)
Free(c) == calls[c].pc = "idle"

Queue(c, call) ==
    LET busy == \E d \in Calls : d # c /\ InFlight(calls[d])
    IN calls' = [d \in Calls |->
                    IF d = c THEN [call EXCEPT !.overlapped = busy]
                    ELSE LET other == IF InFlight(calls[d])
                                      THEN [calls[d] EXCEPT !.overlapped = TRUE]
                                      ELSE calls[d]
                         IN IF Mutates(call)
                            THEN Widen(other, call.op, call.namespace, call.key, call.value)
                            ELSE other]

setValue(c, namespace, key, value) ==
    /\ Free(c)
    /\ Queue(c, [Idle EXCEPT !.pc = "queued", !.op = "setValue",
                             !.namespace = namespace, !.key = key, !.hasKey = TRUE,
                             !.value = value, !.jsonValue = JSONstringify(value),
                             !.promise = "pending"])
    /\ possible' = Touch("setValue", namespace, key, value)
    /\ UNCHANGED << table, docVars >>

\* hasKey = FALSE is the call with the key left out (key === undefined).
getValue(c, namespace, key, hasKey) ==
    /\ Free(c)
    /\ hasKey \/ key = CHOOSE k \in Keys : TRUE
    /\ Queue(c, [Idle EXCEPT !.pc = "queued", !.op = "getValue",
                             !.namespace = namespace,
                             !.key = IF hasKey THEN key ELSE "",
                             !.hasKey = hasKey, !.promise = "pending",
                             !.exp = Expect(namespace)])
    /\ UNCHANGED << table, possible, docVars >>

deleteValue(c, namespace, key) ==
    /\ Free(c)
    /\ Queue(c, [Idle EXCEPT !.pc = "queued", !.op = "deleteValue",
                             !.namespace = namespace, !.key = key, !.hasKey = TRUE,
                             !.promise = "pending"])
    /\ possible' = Touch("deleteValue", namespace, key, Undefined)
    /\ UNCHANGED << table, docVars >>

getNamespaces(c) ==
    /\ Free(c)
    /\ Queue(c, [Idle EXCEPT !.pc = "queued", !.op = "getNamespaces",
                             !.promise = "pending"])
    /\ UNCHANGED << table, possible, docVars >>

deleteNamespace(c, namespace) ==
    /\ Free(c)
    /\ Queue(c, [Idle EXCEPT !.pc = "queued", !.op = "deleteNamespace",
                             !.namespace = namespace, !.promise = "pending"])
    /\ possible' = Touch("deleteNamespace", namespace, "", Undefined)
    /\ UNCHANGED << table, docVars >>

(***************************************************************************)
(* The statement of a queued call runs on the database, atomically.        *)
(***************************************************************************)
Executed(c, error, rows, changes) ==
    calls' = [calls EXCEPT ![c].pc = "executed", ![c].error = error,
                           ![c].rows = rows, ![c].changes = changes]

\* The write as two statements: a DELETE of the old row, then the INSERT.
RunInsertTwoStep(c) ==
    /\ calls[c].pc = "queued" /\ calls[c].op = "setValue"
    /\ IF SelectValue(table, calls[c].namespace, calls[c].key) # {}
       THEN /\ table' = DeleteRow(table, calls[c].namespace, calls[c].key)
            /\ UNCHANGED calls
       ELSE /\ table' = InsertOrReplace(table, calls[c].namespace, calls[c].key,
                                        calls[c].jsonValue.text)
            /\ Executed(c, FALSE, {}, 1)
    /\ UNCHANGED << possible, docVars >>

\* An undefined parameter is left unbound, which SQLite reads as NULL: the
\* NOT NULL constraint on value aborts the statement.
RunInsert(c) ==
    /\ calls[c].pc = "queued" /\ calls[c].op = "setValue"
    /\ IF calls[c].jsonValue.defined
       THEN /\ table' = InsertOrReplace(table, calls[c].namespace, calls[c].key,
                                        calls[c].jsonValue.text)
            /\ Executed(c, FALSE, {}, 1)
       ELSE /\ table' = table
            /\ Executed(c, TRUE, {}, 0)
    /\ UNCHANGED << possible, docVars >>

\* The read takes the rows it returns out of the table.
RunSelectConsuming(c) ==
    /\ calls[c].pc = "queued" /\ calls[c].op = "getValue"
    /\ LET rows == IF calls[c].hasKey
                   THEN SelectValue(table, calls[c].namespace, calls[c].key)
                   ELSE SelectNamespace(table, calls[c].namespace)
       IN /\ Executed(c, FALSE, rows, 0)
          /\ table' = table \ rows
    /\ UNCHANGED << possible, docVars >>

RunSelect(c) ==
    /\ calls[c].pc = "queued" /\ calls[c].op = "getValue"
    /\ Executed(c, FALSE,
                IF calls[c].hasKey
                THEN SelectValue(table, calls[c].namespace, calls[c].key)
                ELSE SelectNamespace(table, calls[c].namespace),
                0)
    /\ UNCHANGED << table, possible, docVars >>

\* A DELETE that removes no row is reported as an error.
RunDeleteStrict(c) ==
    /\ calls[c].pc = "queued" /\ calls[c].op = "deleteValue"
    /\ table' = DeleteRow(table, calls[c].namespace, calls[c].key)
    /\ Executed(c, table' = table, {}, Cardinality(table) - Cardinality(table'))
    /\ UNCHANGED << possible, docVars >>

RunDelete(c) ==
    /\ calls[c].pc = "queued" /\ calls[c].op = "deleteValue"
    /\ table' = DeleteRow(table, calls[c].namespace, calls[c].key)
    /\ Executed(c, FALSE, {}, Cardinality(table) - Cardinality(table'))
    /\ UNCHANGED << possible, docVars >>

RunSelectNamespaces(c) ==
    /\ calls[c].pc = "queued" /\ calls[c].op = "getNamespaces"
    /\ calls' = [calls EXCEPT ![c].pc = "executed", ![c].error = FALSE,
                              ![c].list = SelectDistinctNamespaces(table)]
    /\ UNCHANGED << table, possible, docVars >>

\* A DELETE of a namespace without rows is reported as an error.
RunDeleteNamespaceStrict(c) ==
    /\ calls[c].pc = "queued" /\ calls[c].op = "deleteNamespace"
    /\ table' = DeleteRows(table, calls[c].namespace)
    /\ Executed(c, table' = table, {}, Cardinality(table) - Cardinality(table'))
    /\ UNCHANGED << possible, docVars >>

RunDeleteNamespace(c) ==
    /\ calls[c].pc = "queued" /\ calls[c].op = "deleteNamespace"
    /\ table' = DeleteRows(table, calls[c].namespace)
    /\ Executed(c, FALSE, {}, Cardinality(table) - Cardinality(table'))
    /\ UNCHANGED << possible, docVars >>

\* The statement takes effect and then reports its error.
RunFailPartial(c) ==
    /\ calls[c].pc = "queued"
    /\ Executed(c, TRUE, {}, 0)
    /\ table' = CASE calls[c].op = "setValue" /\ calls[c].jsonValue.defined ->
                       InsertOrReplace(table, calls[c].namespace, calls[c].key,
                                       calls[c].jsonValue.text)
                   [] calls[c].op = "deleteValue" ->
                       DeleteRow(table, calls[c].namespace, calls[c].key)
                   [] calls[c].op = "deleteNamespace" ->
                       DeleteRows(table, calls[c].namespace)
                   [] OTHER -> table
    /\ possible' = [pk \in Namespaces \X Keys |->
                       IF Touches(calls[c], pk[1], pk[2])
                       THEN { AnyOutcome } ELSE possible[pk]]
    /\ UNCHANGED docVars

\* The database reports an error for the statement (busy, I/O, full disk):
\* SQLite rolls the statement back, the callback gets the error.  What the
\* call was expected to write is no longer known to have been written.
RunFail(c) ==
    /\ calls[c].pc = "queued"
    /\ Executed(c, TRUE, {}, 0)
    /\ possible' = [pk \in Namespaces \X Keys |->
                       IF Touches(calls[c], pk[1], pk[2])
                       THEN { AnyOutcome } ELSE possible[pk]]
    /\ UNCHANGED << table, docVars >>

\* The callback ignores its error argument.
CallbackSwallowing(c) ==
    /\ calls[c].pc = "executed"
    /\ calls' = [calls EXCEPT
         ![c].pc = "settled", ![c].rows = {}, ![c].promise = "resolved",
         ![c].result = IF calls[c].op = "getValue" /\ calls[c].hasKey
                       THEN RowResult(calls[c].rows) ELSE Undefined,
         ![c].mapping = IF calls[c].op = "getValue" /\ ~calls[c].hasKey
                        THEN RowsResult(calls[c].rows) ELSE << >>]
    /\ UNCHANGED << table, possible, docVars >>

\* The callback does nothing with an error: if (error) { } else { resolve() }.
CallbackDroppingError(c) ==
    /\ calls[c].pc = "executed" /\ ~calls[c].error
    /\ calls' = [calls EXCEPT
         ![c].pc = "settled", ![c].rows = {}, ![c].promise = "resolved",
         ![c].result = IF calls[c].op = "getValue" /\ calls[c].hasKey
                       THEN RowResult(calls[c].rows) ELSE Undefined,
         ![c].mapping = IF calls[c].op = "getValue" /\ ~calls[c].hasKey
                        THEN RowsResult(calls[c].rows) ELSE << >>]
    /\ UNCHANGED << table, possible, docVars >>

(***************************************************************************)
(* The callback of an executed statement settles the promise: reject on    *)
(* error, resolve otherwise (getValue with what it makes of the rows).     *)
(***************************************************************************)
Callback(c) ==
    /\ calls[c].pc = "executed"
    /\ calls' = [calls EXCEPT
         ![c].pc = "settled",
         ![c].rows = {},
         ![c].promise = IF calls[c].error THEN "rejected" ELSE "resolved",
         ![c].result = IF ~calls[c].error /\ calls[c].op = "getValue" /\ calls[c].hasKey
                       THEN RowResult(calls[c].rows) ELSE Undefined,
         ![c].mapping = IF ~calls[c].error /\ calls[c].op = "getValue" /\ ~calls[c].hasKey
                        THEN RowsResult(calls[c].rows) ELSE << >>]
    /\ UNCHANGED << table, possible, docVars >>

\* The caller takes the settled promise's outcome; it may call again.
Await(c) ==
    /\ calls[c].pc = "settled"
    /\ calls' = [calls EXCEPT ![c] = Idle]
    /\ UNCHANGED << table, possible, docVars >>

Run(c) ==
    \/ RunInsert(c)
    \/ RunSelect(c)
    \/ RunDelete(c)
    \/ RunSelectNamespaces(c)
    \/ RunDeleteNamespace(c)

Call(c, N, K, V) ==
    \/ \E ns \in N, k \in K, v \in V : setValue(c, ns, k, v)
    \/ \E ns \in N, k \in K, hasKey \in BOOLEAN : getValue(c, ns, k, hasKey)
    \/ \E ns \in N, k \in K : deleteValue(c, ns, k)
    \/ getNamespaces(c)
    \/ \E ns \in N : deleteNamespace(c, ns)

(***************************************************************************)
(* close(): db.close(callback).  sqlite3 closes the handle once no         *)
(* statement is pending; the Database object has then reached the end of   *)
(* its life, and every statement given to it afterwards (a second close    *)
(* too) gets SQLITE_MISUSE in its callback.  A caller that has closed the  *)
(* database keeps its settled call, which is how the model remembers it.   *)
(***************************************************************************)
\* The database stays open.
ClosedNever == FALSE

Closed ==
    \E c \in Calls : /\ calls[c].op = "close" /\ ~calls[c].error
                      /\ calls[c].pc \in { "executed", "settled" }

close(c) ==
    /\ Free(c)
    /\ Queue(c, [Idle EXCEPT !.pc = "queued", !.op = "close", !.promise = "pending"])
    /\ UNCHANGED << table, possible, docVars >>

RunClose(c) ==
    /\ calls[c].pc = "queued" /\ calls[c].op = "close"
    /\ \A d \in Calls \ { c } : calls[d].pc # "queued"
    /\ Executed(c, Closed, {}, 0)
    /\ UNCHANGED << table, possible, docVars >>

\* A statement given to the database: it runs while the database is open
\* and fails once it is closed.
RunOpen(c) == ~Closed /\ calls[c].op # "close" /\ Run(c)

RunClosed(c) == Closed /\ calls[c].op # "close" /\ RunFail(c)

\* Every call has been awaited; a close that has settled stays as it is.
Rested ==
    \A c \in Calls :
        calls[c].pc = "idle" \/ (calls[c].op = "close" /\ calls[c].pc = "settled")

(***************************************************************************)
(* The /api routes.  Each handler takes its arguments from the request,    *)
(* awaits one storage call and answers with res.json: the success payload  *)
(* when the promise resolved, status 500 and { error } when it rejected.   *)
(***************************************************************************)
\* The request bodies of POST: with a value, empty, and with other fields only.
Bodies ==
    { Obj(<< Field("value", Num(42)) >>), Obj(<< >>), Obj(<< Field("other", Num(42)) >>) }

\* const { value } = req.body
BodyValue(body) ==
    IF \E i \in DOMAIN body.fields : body.fields[i].k = "value"
    THEN body.fields[CHOOSE i \in DOMAIN body.fields : body.fields[i].k = "value"].v
    ELSE Undefined

RouteOf(call) ==
    CASE call.op = "setValue" -> "POST /:namespace/:id"
      [] call.op = "getValue" /\ call.hasKey -> "GET /:namespace/:id"
      [] call.op = "getValue" /\ ~call.hasKey -> "GET /:namespace"
      [] call.op = "deleteValue" -> "DELETE /:namespace/:id"
      [] call.op = "getNamespaces" -> "GET /"
      [] call.op = "deleteNamespace" -> "DELETE /:namespace"

\* new Error(`Failed to ...: ${error.message}`), without the database's part.
ErrorMessage(call) ==
    CASE call.op = "setValue" -> "Failed to set value"
      [] call.op = "getValue" -> "Failed to get value"
      [] call.op = "deleteValue" -> "Failed to delete value"
      [] call.op = "getNamespaces" -> "Failed to get namespaces"
      [] call.op = "deleteNamespace" -> "Failed to delete namespace"

\* `Namespace '${namespace}' deleted successfully`
NamespaceDeleted(namespace) ==
    CASE namespace = "orders" -> "Namespace 'orders' deleted successfully"
      [] namespace = "users" -> "Namespace 'users' deleted successfully"

\* The own properties of the object getValue(ns) resolved, as fields.
RECURSIVE FieldsOf(_, _)
FieldsOf(mapping, keys) ==
    IF keys = {} THEN << >>
    ELSE LET k == CHOOSE x \in keys : TRUE
         IN << Field(k, mapping[k]) >> \o FieldsOf(mapping, keys \ { k })

\* The body says value: null for an undefined value.
GetValueBodyNull(value) ==
    Obj(<< Field("value", IF value = Undefined THEN Null ELSE value) >>)

\* res.json({ value })
GetValueBody(value) == Obj(<< Field("value", value) >>)

\* The object each route hands to res.json on success.
Payload(call) ==
    CASE call.op = "setValue" ->
           Obj(<< Field("message", Str("Value set successfully")) >>)
      [] call.op = "getValue" /\ call.hasKey -> GetValueBody(call.result)
      [] call.op = "getValue" /\ ~call.hasKey ->
           Obj(<< Field("namespace", Str(call.namespace)),
                  Field("values", Obj(FieldsOf(call.mapping, DOMAIN call.mapping))),
                  Field("count", Num(Cardinality(DOMAIN call.mapping))) >>)
      [] call.op = "deleteValue" ->
           Obj(<< Field("message", Str("Value deleted successfully")) >>)
      [] call.op = "getNamespaces" ->
           Obj(<< Field("message", Str("Welcome to the C-Store API")),
                  Field("status", Str("API is running successfully!")),
                  Field("namespaces", Arr([i \in DOMAIN call.list |-> Str(call.list[i])])),
                  Field("count", Num(Len(call.list))) >>)
      [] call.op = "deleteNamespace" ->
           Obj(<< Field("message", Str(NamespaceDeleted(call.namespace))) >>)

\* res.status(status).json(value)
ResJson(route, status, value) ==
    [route |-> route, status |-> status, body |-> JSONstringify(value).text]

\* Every outcome is answered with the success payload.
RouteResponseAlwaysOk(call) == ResJson(RouteOf(call), 200, Payload(call))

\* try { await ...; res.json(payload) } catch (error) { res.status(500).json({ error }) }
RouteResponse(call) ==
    IF call.promise = "resolved"
    THEN ResJson(RouteOf(call), 200, Payload(call))
    ELSE ResJson(RouteOf(call), 500, Obj(<< Field("error", Str(ErrorMessage(call))) >>))

\* A request arrives and its handler makes its storage call.
Request(c) ==
    \/ \E ns \in Namespaces, id \in Keys, body \in Bodies :
          setValue(c, ns, id, BodyValue(body))
    \/ \E ns \in Namespaces, id \in Keys : getValue(c, ns, id, TRUE)
    \/ \E ns \in Namespaces : getValue(c, ns, CHOOSE k \in Keys : TRUE, FALSE)
    \/ \E ns \in Namespaces, id \in Keys : deleteValue(c, ns, id)
    \/ getNamespaces(c)
    \/ \E ns \in Namespaces : deleteNamespace(c, ns)

\* The handler goes on after its await and sends the response.
Respond(c) ==
    /\ calls[c].pc = "settled"
    /\ calls' = [calls EXCEPT ![c].pc = "responded",
                              ![c].response = RouteResponse(calls[c])]
    /\ UNCHANGED << table, possible, docVars >>

\* The client has the response; the next request may come.
Done(c) ==
    /\ calls[c].pc = "responded"
    /\ calls' = [calls EXCEPT ![c] = Idle]
    /\ UNCHANGED << table, possible, docVars >>

(***************************************************************************)
(* app.js.  A request passes express.json(), then the routes in the order  *)
(* of their registration (app.get('/'), app.get('/health'), the router     *)
(* mounted on /api), then the 404 handler; an error raised on the way goes *)
(* to the error-handling middleware.  express.static is taken to find no   *)
(* file for the paths requested here.                                      *)
(***************************************************************************)
Methods == { "GET", "POST", "DELETE", "PATCH", "OPTIONS" }

Paths ==
    { << >>, << "health" >>, << "api" >>, << "nonexistent" >>,
      << "api", "users", "john", "extra" >> }
    \cup { << "api", ns >> : ns \in Namespaces }
    \cup { << "api", ns, id >> : ns \in Namespaces, id \in Keys }

\* The text {"incomplete": json}
MalformedBody ==
    << Punct("{"), StrTok("incomplete"), Punct(":"), Lit("json"), Punct("}") >>

\* Body texts sent as application/json; << >> is a request without a body.
BodyTexts == { JSONstringify(b).text : b \in Bodies } \cup { << >>, MalformedBody }

Requests ==
    { r \in [method : Methods, path : Paths, body : BodyTexts] :
        r.method = "POST" \/ r.body = << >> }

\* req.originalUrl
RECURSIVE OriginalUrl(_)
OriginalUrl(path) ==
    IF path = << >> THEN "/"
    ELSE IF Len(path) = 1 THEN "/" \o path[1]
    ELSE "/" \o path[1] \o OriginalUrl(Tail(path))

\* express.json(): req.body is {} without a body, the parsed text otherwise;
\* ok = FALSE is the error it passes to next() for a text that is not JSON.
ExpressJson(text) ==
    IF text = << >> THEN [ok |-> TRUE, value |-> Obj(<< >>)] ELSE JSONparse(text)

\* The routes in the order of their registration: a route matches a path
\* made of its mount prefix followed by one segment per parameter.
Route(method, prefix, params, name) ==
    [method |-> method, prefix |-> prefix, params |-> params, name |-> name]

Routes ==
    << Route("GET", << >>, 0, "app GET /"),
       Route("GET", << "health" >>, 0, "app GET /health"),
       Route("GET", << "api" >>, 1, "GET /:namespace"),
       Route("GET", << "api" >>, 0, "GET /"),
       Route("POST", << "api" >>, 2, "POST /:namespace/:id"),
       Route("GET", << "api" >>, 2, "GET /:namespace/:id"),
       Route("DELETE", << "api" >>, 2, "DELETE /:namespace/:id"),
       Route("DELETE", << "api" >>, 1, "DELETE /:namespace") >>

PathMatches(route, path) ==
    /\ Len(path) = Len(route.prefix) + route.params
    /\ SubSeq(path, 1, Len(route.prefix)) = route.prefix

\* The first route registered for the request's method and path, 0 if none.
MatchRoute(req) ==
    LET hits == { i \in DOMAIN Routes :
                    Routes[i].method = req.method /\ PathMatches(Routes[i], req.path) }
    IN IF hits = {} THEN 0 ELSE CHOOSE i \in hits : \A j \in hits : i <= j

\* Express answers an OPTIONS request that no route handled with the methods
\* of the routes its path matched (HEAD along with GET), joined by commas.
RECURSIVE Allow(_, _)
Allow(path, i) ==
    IF i > Len(Routes) THEN ""
    ELSE LET rest == Allow(path, i + 1)
             own == IF Routes[i].method = "GET" THEN "GET,HEAD" ELSE Routes[i].method
         IN IF ~PathMatches(Routes[i], path) THEN rest
            ELSE IF rest = "" THEN own ELSE own \o "," \o rest

\* A response sent without a storage call.
Answer(c, req, response) ==
    /\ calls' = [calls EXCEPT ![c] = [Idle EXCEPT !.pc = "responded",
                                                   !.request = req,
                                                   !.response = response]]
    /\ UNCHANGED << table, possible, docVars >>

\* app.get('/')
Welcome ==
    Obj(<< Field("message", Str("Welcome to C-Store API")),
           Field("status", Str("Server is running successfully!")),
           Field("endpoints", Obj(<< Field("health", Str("/health")),
                                     Field("api", Str("/api")) >>)) >>)

\* app.get('/health'); the timestamp and the uptime are the clock's.
Health ==
    Obj(<< Field("status", Str("OK")), Field("timestamp", Str("timestamp")),
           Field("uptime", Num(0)) >>)

\* The error-handling middleware; the message is the parser's.
SomethingWentWrong ==
    ResJson("error", 500, Obj(<< Field("error", Str("Something went wrong!")),
                                 Field("message", Str("Unexpected token")) >>))

\* The 404 handler.
RouteNotFound(req) ==
    ResJson("none", 404, Obj(<< Field("error", Str("Route not found")),
                                Field("path", Str(OriginalUrl(req.path))) >>))

\* The handler of the matched route: the two of app.js answer at once, the
\* routes of /api make their storage call with req.params and req.body.
Handle(c, name, req, body) ==
    \/ name = "app GET /" /\ Answer(c, req, ResJson(name, 200, Welcome))
    \/ name = "app GET /health" /\ Answer(c, req, ResJson(name, 200, Health))
    \/ name = "GET /:namespace"
         /\ getValue(c, req.path[2], CHOOSE k \in Keys : TRUE, FALSE)
    \/ name = "GET /" /\ getNamespaces(c)
    \/ name = "POST /:namespace/:id"
         /\ setValue(c, req.path[2], req.path[3], BodyValue(body))
    \/ name = "GET /:namespace/:id" /\ getValue(c, req.path[2], req.path[3], TRUE)
    \/ name = "DELETE /:namespace/:id" /\ deleteValue(c, req.path[2], req.path[3])
    \/ name = "DELETE /:namespace" /\ deleteNamespace(c, req.path[2])

\* One request through the chain.
Dispatch(c, req) ==
    /\ Free(c)
    /\ LET body == ExpressJson(req.body)
           i == MatchRoute(req)
           allow == Allow(req.path, 1)
       IN IF ~body.ok THEN Answer(c, req, SomethingWentWrong)
          ELSE IF i # 0 THEN Handle(c, Routes[i].name, req, body.value)
          ELSE IF req.method = "OPTIONS" /\ allow # ""
               THEN Answer(c, req, [route |-> "options", status |-> 200,
                                    body |-> << Lit(allow) >>])
          ELSE Answer(c, req, RouteNotFound(req))

(***************************************************************************)
(* Init: the table as the schema statement leaves a new database.          *)
(***************************************************************************)
InitIndexed ==
    /\ table = {}
    /\ calls = [c \in Calls |-> Idle]
    /\ possible = [pk \in Namespaces \X Keys |-> { Undefined }]

\* Sequential use: a caller awaits each call before the next one is made.
Quiet == \A c \in Calls : calls[c].pc = "idle"

\* Concurrent use: every caller makes one call, whatever the others are at;
\* the callers are numbered in the order of their calls.
Arrived(c) == \A d \in Calls : d < c => calls[d].pc # "idle"

(***************************************************************************)
(* Document Backend, from the specification: the whole dataset is one JSON *)
(* document, an object keyed by namespace whose values are objects keyed   *)
(* by key.  Every operation loads and decodes the document, and a set      *)
(* mutates what it loaded, encodes it and stores it.  Under the locking    *)
(* discipline one global lock is held from the load to the store.          *)
(*   doc       the persisted text                                          *)
(*   docCalls  per caller: pc is idle, called, loaded or settled           *)
(*   lock      the caller holding the lock, 0 when it is free              *)
(*   locking   whether the backend is used under the locking discipline    *)
(***************************************************************************)
ObjHas(o, k) == \E i \in DOMAIN o.fields : o.fields[i].k = k

ObjGet(o, k) ==
    IF ObjHas(o, k)
    THEN o.fields[CHOOSE i \in DOMAIN o.fields : o.fields[i].k = k].v
    ELSE Undefined

\* o[k] = v: an own property keeps its place, a new one comes last.
ObjPut(o, k, v) ==
    IF ObjHas(o, k)
    THEN Obj([i \in DOMAIN o.fields |->
                IF o.fields[i].k = k THEN Field(k, v) ELSE o.fields[i]])
    ELSE Obj(Append(o.fields, Field(k, v)))

\* Decoding that takes an empty input for malformed text.
DecodeStrict(text) == JSONparse(text)

\* Decoding: an empty input is no data.
Decode(text) ==
    IF text = << >> THEN [ok |-> TRUE, value |-> Obj(<< >>)] ELSE JSONparse(text)

Encode(value) == JSONstringify(value).text

\* The namespace is made anew around the one entry.
DocSetReplacing(d, namespace, key, value) ==
    ObjPut(d, namespace, ObjPut(Obj(<< >>), key, value))

DocSet(d, namespace, key, value) ==
    ObjPut(d, namespace,
           ObjPut(IF ObjHas(d, namespace) THEN ObjGet(d, namespace) ELSE Obj(<< >>),
                  key, value))

DocGet(d, namespace, key) ==
    IF ObjHas(d, namespace) THEN ObjGet(ObjGet(d, namespace), key) ELSE Undefined

DocIdle ==
    [pc |-> "idle", op |-> "none", namespace |-> "", key |-> "", value |-> Undefined,
     snapshot |-> Obj(<< >>), promise |-> "none", result |-> Undefined,
     overlapped |-> FALSE]

DocInFlight(call) == call.pc \in { "called", "loaded" }

\* The load is entered with no regard to the lock.
MayLoadUnlocked(c) == TRUE

\* Under the discipline a cycle starts only when the lock is free.
MayLoad(c) == locking => lock = 0

DocCall(c, op, namespace, key, value) ==
    /\ docCalls[c].pc = "idle"
    /\ \A d \in Calls : d < c => docCalls[d].pc # "idle"
    /\ LET busy == \E d \in Calls : d # c /\ DocInFlight(docCalls[d])
       IN docCalls' = [d \in Calls |->
            IF d = c
            THEN [DocIdle EXCEPT !.pc = "called", !.op = op, !.namespace = namespace,
                                 !.key = key, !.value = value, !.promise = "pending",
                                 !.overlapped = busy]
            ELSE IF DocInFlight(docCalls[d])
                 THEN [docCalls[d] EXCEPT !.overlapped = TRUE]
                 ELSE docCalls[d]]
    /\ UNCHANGED << table, calls, possible, doc, lock, locking >>

DocLoad(c) ==
    /\ docCalls[c].pc = "called"
    /\ MayLoad(c)
    /\ LET d == Decode(doc)
       IN docCalls' = [docCalls EXCEPT
            ![c].pc = IF d.ok THEN "loaded" ELSE "settled",
            ![c].promise = IF d.ok THEN "pending" ELSE "rejected",
            ![c].snapshot = d.value]
    /\ lock' = IF locking /\ Decode(doc).ok THEN c ELSE lock
    /\ UNCHANGED << table, calls, possible, doc, locking >>

DocStore(c) ==
    /\ docCalls[c].pc = "loaded" /\ docCalls[c].op = "set"
    /\ doc' = Encode(DocSet(docCalls[c].snapshot, docCalls[c].namespace,
                            docCalls[c].key, docCalls[c].value))
    /\ docCalls' = [docCalls EXCEPT ![c].pc = "settled", ![c].promise = "resolved"]
    /\ lock' = IF lock = c THEN 0 ELSE lock
    /\ UNCHANGED << table, calls, possible, locking >>

DocReturn(c) ==
    /\ docCalls[c].pc = "loaded" /\ docCalls[c].op = "get"
    /\ docCalls' = [docCalls EXCEPT
         ![c].pc = "settled", ![c].promise = "resolved",
         ![c].result = DocGet(docCalls[c].snapshot, docCalls[c].namespace,
                              docCalls[c].key)]
    /\ lock' = IF lock = c THEN 0 ELSE lock
    /\ UNCHANGED << table, calls, possible, doc, locking >>

InitDocument ==
    /\ doc = << >>
    /\ docCalls = [c \in Calls |-> DocIdle]
    /\ lock = 0

NextDocument ==
    \/ \E c \in Calls, k \in Keys, v \in { Num(42), Str("42") } :
          DocCall(c, "set", "users", k, v)
    \/ \E c \in Calls, k \in Keys : DocCall(c, "get", "users", k, Undefined)
    \/ \E c \in Calls : DocLoad(c)
    \/ \E c \in Calls : DocStore(c)
    \/ \E c \in Calls : DocReturn(c)

(***************************************************************************)
(* The other operations of the Document Backend, from the specification:   *)
(* delete removes the entry and prunes a namespace it has emptied,         *)
(* deleteNamespace removes the namespace, get(ns) returns the entries of   *)
(* the namespace (none when it does not exist), listNamespaces the         *)
(* top-level names of the document in ascending order.                     *)
(***************************************************************************)
ObjDel(o, k) ==
    LET Keeps(f) == f.k # k IN Obj(SelectSeq(o.fields, Keeps))

DocDelete(d, namespace, key) ==
    IF ~ObjHas(d, namespace) THEN d
    ELSE LET rest == ObjDel(ObjGet(d, namespace), key)
         IN IF rest.fields = << >> THEN ObjDel(d, namespace)
            ELSE ObjPut(d, namespace, rest)

DocDeleteNamespace(d, namespace) == ObjDel(d, namespace)

DocGetAll(d, namespace) ==
    IF ObjHas(d, namespace) THEN ObjGet(d, namespace) ELSE Obj(<< >>)

DocList(d) == OrderBy({ d.fields[i].k : i \in DOMAIN d.fields })

\* The same operation as the settled call of the Indexed Backend.
DocOpOf(call) ==
    CASE call.op = "setValue" -> "set"
      [] call.op = "getValue" /\ call.hasKey -> "get"
      [] call.op = "getValue" /\ ~call.hasKey -> "getAll"
      [] call.op = "deleteValue" -> "delete"
      [] call.op = "getNamespaces" -> "list"
      [] call.op = "deleteNamespace" -> "deleteNamespace"

\* The caller makes on the Document Backend the call it made on the other.
DocMirror(c) ==
    /\ calls[c].pc = "settled" /\ docCalls[c].pc = "idle"
    /\ docCalls' = [docCalls EXCEPT ![c] =
          [DocIdle EXCEPT !.pc = "called", !.op = DocOpOf(calls[c]),
                          !.namespace = calls[c].namespace, !.key = calls[c].key,
                          !.value = calls[c].value, !.promise = "pending"]]
    /\ UNCHANGED << table, calls, possible, doc, lock, locking >>

DocRemove(c) ==
    /\ docCalls[c].pc = "loaded" /\ docCalls[c].op \in { "delete", "deleteNamespace" }
    /\ doc' = Encode(IF docCalls[c].op = "delete"
                     THEN DocDelete(docCalls[c].snapshot, docCalls[c].namespace,
                                    docCalls[c].key)
                     ELSE DocDeleteNamespace(docCalls[c].snapshot, docCalls[c].namespace))
    /\ docCalls' = [docCalls EXCEPT ![c].pc = "settled", ![c].promise = "resolved"]
    /\ lock' = IF lock = c THEN 0 ELSE lock
    /\ UNCHANGED << table, calls, possible, locking >>

DocReturnAll(c) ==
    /\ docCalls[c].pc = "loaded" /\ docCalls[c].op \in { "getAll", "list" }
    /\ docCalls' = [docCalls EXCEPT
         ![c].pc = "settled", ![c].promise = "resolved",
         ![c].result = IF docCalls[c].op = "getAll"
                       THEN DocGetAll(docCalls[c].snapshot, docCalls[c].namespace)
                       ELSE LET l == DocList(docCalls[c].snapshot)
                            IN Arr([i \in DOMAIN l |-> Str(l[i])])]
    /\ lock' = IF lock = c THEN 0 ELSE lock
    /\ UNCHANGED << table, calls, possible, doc, locking >>

\* The caller has both outcomes; it may call again.
AwaitBoth(c) ==
    /\ calls[c].pc = "settled" /\ docCalls[c].pc = "settled"
    /\ calls' = [calls EXCEPT ![c] = Idle]
    /\ docCalls' = [docCalls EXCEPT ![c] = DocIdle]
    /\ UNCHANGED << table, possible, doc, lock, locking >>

(***************************************************************************)
(* Specifications.                                                         *)
(***************************************************************************)
Init == InitIndexed /\ InitDocument /\ locking = TRUE

\* The Indexed Backend used by one caller after the other.
Next ==
    \/ \E c \in Calls : Quiet /\ Call(c, Namespaces, Keys, Values)
    \/ \E c \in Calls : Run(c)
    \/ \E c \in Calls : Callback(c)
    \/ \E c \in Calls : Await(c)

Spec == Init /\ [][Next]_vars

\* The same on one pair, with the values of the codec check.
NextRoundTrip ==
    \/ \E c \in Calls : Quiet /\ Call(c, { "users" }, { "john" }, CodecValues)
    \/ \E c \in Calls : Run(c)
    \/ \E c \in Calls : Callback(c)
    \/ \E c \in Calls : Await(c)

SpecRoundTrip == Init /\ [][NextRoundTrip]_vars

\* The Indexed Backend under concurrent requests on one namespace: writes
\* and reads made while other calls are in flight, their statements run in
\* any order against the callbacks of the others.
ConcurrentValues == { Num(42), Str("42") }

NextConcurrent ==
    \/ \E c \in Calls : \E k \in Keys, v \in ConcurrentValues :
          Arrived(c) /\ setValue(c, "users", k, v)
    \/ \E c \in Calls : \E k \in Keys, hasKey \in BOOLEAN :
          Arrived(c) /\ getValue(c, "users", k, hasKey)
    \/ \E c \in Calls : RunInsert(c)
    \/ \E c \in Calls : RunSelect(c)
    \/ \E c \in Calls : Callback(c)

SpecConcurrent == Init /\ [][NextConcurrent]_vars

\* Texts that are not JSON: { invalid json } and a bare word.  data.db is a
\* file that outlives the process and is opened as it is found (CREATE TABLE
\* IF NOT EXISTS), so a row may hold a text that setValue did not write.
MalformedTexts ==
    { << Punct("{"), Lit("invalid"), Lit("json"), Punct("}") >>, << Lit("hello") >> }

\* A row written to data.db by something other than setValue.
ForeignInsert(namespace, key, text) ==
    /\ table' = InsertOrReplace(table, namespace, key, text)
    /\ possible' = [possible EXCEPT ![<< namespace, key >>] = { AnyOutcome }]
    /\ UNCHANGED << calls, docVars >>

\* Reads, one after the other, of a database that holds such rows.
NextForeign ==
    \/ \E ns \in Namespaces, k \in Keys, text \in MalformedTexts :
          Quiet /\ ForeignInsert(ns, k, text)
    \/ \E c \in Calls : \E ns \in Namespaces, k \in Keys, hasKey \in BOOLEAN :
          Quiet /\ getValue(c, ns, k, hasKey)
    \/ \E c \in Calls : RunSelect(c)
    \/ \E c \in Calls : Callback(c)
    \/ \E c \in Calls : Await(c)

SpecForeign == Init /\ [][NextForeign]_vars

\* Sequential use of a database whose statements may fail.
NextFailing ==
    \/ \E c \in Calls : Quiet /\ Call(c, Namespaces, Keys, Values)
    \/ \E c \in Calls : Run(c)
    \/ \E c \in Calls : RunFail(c)
    \/ \E c \in Calls : Callback(c)
    \/ \E c \in Calls : Await(c)

SpecFailing == Init /\ [][NextFailing]_vars

\* The /api routes, one request after the other.
NextApi ==
    \/ \E c \in Calls : Quiet /\ Request(c)
    \/ \E c \in Calls : Run(c)
    \/ \E c \in Calls : Callback(c)
    \/ \E c \in Calls : Respond(c)
    \/ \E c \in Calls : Done(c)

SpecApi == Init /\ [][NextApi]_vars

\* The same on a database whose statements may fail.
NextApiFailing ==
    \/ \E c \in Calls : Quiet /\ Request(c)
    \/ \E c \in Calls : Run(c)
    \/ \E c \in Calls : RunFail(c)
    \/ \E c \in Calls : Callback(c)
    \/ \E c \in Calls : Respond(c)
    \/ \E c \in Calls : Done(c)

SpecApiFailing == Init /\ [][NextApiFailing]_vars

\* The whole application, one request after the other.
NextApp ==
    \/ \E c \in Calls : \E req \in Requests : Quiet /\ Dispatch(c, req)
    \/ \E c \in Calls : Run(c)
    \/ \E c \in Calls : Callback(c)
    \/ \E c \in Calls : Respond(c)
    \/ \E c \in Calls : Done(c)

SpecApp == Init /\ [][NextApp]_vars

\* A database that holds the entry (users, john) = 42 when it is opened, under
\* concurrent requests: overwrites, reads and namespace listings, their
\* statements run in any order against the callbacks of the others.
InitOverwrite ==
    /\ table = { Row("users", "john", JSONstringify(Num(42)).text) }
    /\ calls = [c \in Calls |-> Idle]
    /\ possible = [pk \in Namespaces \X Keys |->
                     IF pk = << "users", "john" >> THEN { Num(42) } ELSE { Undefined }]
    /\ InitDocument
    /\ locking = TRUE

NextOverwrite ==
    \/ \E c \in Calls : \E k \in Keys, v \in ConcurrentValues :
          Arrived(c) /\ setValue(c, "users", k, v)
    \/ \E c \in Calls : \E k \in Keys : Arrived(c) /\ getValue(c, "users", k, TRUE)
    \/ \E c \in Calls : Arrived(c) /\ getNamespaces(c)
    \/ \E c \in Calls : RunInsert(c)
    \/ \E c \in Calls : RunSelect(c)
    \/ \E c \in Calls : RunSelectNamespaces(c)
    \/ \E c \in Calls : Callback(c)

SpecOverwrite == InitOverwrite /\ [][NextOverwrite]_vars

\* All five operations on one namespace under concurrent requests: every
\* caller makes one call while the calls of the others are in flight, and
\* the statements run in any order against the callbacks.  One key is
\* written with two values, read and deleted; the other is only written.
NextLinear ==
    \/ \E c \in Calls : \E v \in ConcurrentValues :
          Arrived(c) /\ setValue(c, "users", "john", v)
    \/ \E c \in Calls : Arrived(c) /\ setValue(c, "users", "__proto__", Num(42))
    \/ \E c \in Calls : Arrived(c) /\ getValue(c, "users", "john", TRUE)
    \/ \E c \in Calls : Arrived(c) /\ getValue(c, "users", CHOOSE k \in Keys : TRUE, FALSE)
    \/ \E c \in Calls : Arrived(c) /\ deleteValue(c, "users", "john")
    \/ \E c \in Calls : Arrived(c) /\ getNamespaces(c)
    \/ \E c \in Calls : Arrived(c) /\ deleteNamespace(c, "users")
    \/ \E c \in Calls : Run(c)
    \/ \E c \in Calls : Callback(c)

SpecLinear == Init /\ [][NextLinear]_vars

\* A database whose namespace users holds two entries when it is opened,
\* under concurrent requests that delete the namespace, read it and list the
\* namespaces; nothing else writes.
InitHolding ==
    /\ table = { Row("users", "john", JSONstringify(Num(42)).text),
                 Row("users", "__proto__", JSONstringify(Str("42")).text) }
    /\ calls = [c \in Calls |-> Idle]
    /\ possible = [pk \in Namespaces \X Keys |->
                     CASE pk = << "users", "john" >> -> { Num(42) }
                       [] pk = << "users", "__proto__" >> -> { Str("42") }
                       [] OTHER -> { Undefined }]
    /\ InitDocument
    /\ locking = TRUE

NextDeleteNamespace ==
    \/ \E c \in Calls : Arrived(c) /\ deleteNamespace(c, "users")
    \/ \E c \in Calls : Arrived(c) /\ getValue(c, "users", CHOOSE k \in Keys : TRUE, FALSE)
    \/ \E c \in Calls : Arrived(c) /\ getNamespaces(c)
    \/ \E c \in Calls : RunDeleteNamespace(c)
    \/ \E c \in Calls : RunSelect(c)
    \/ \E c \in Calls : RunSelectNamespaces(c)
    \/ \E c \in Calls : Callback(c)

SpecDeleteNamespace == InitHolding /\ [][NextDeleteNamespace]_vars

\* Calls made one after the other, close() among them.
NextClose ==
    \/ \E c \in Calls : Rested /\ Call(c, { "users" }, Keys, { Num(42) })
    \/ \E c \in Calls : Rested /\ close(c)
    \/ \E c \in Calls : RunOpen(c)
    \/ \E c \in Calls : RunClosed(c)
    \/ \E c \in Calls : RunClose(c)
    \/ \E c \in Calls : Callback(c)
    \/ \E c \in Calls : calls[c].op # "close" /\ Await(c)

SpecClose == Init /\ [][NextClose]_vars

\* The two backends side by side: every call, with a JSON value, is made on
\* the Indexed Backend and then on the Document Backend, from empty datasets.
NextBoth ==
    \/ \E c \in Calls : Quiet /\ Call(c, Namespaces, Keys, ConcurrentValues)
    \/ \E c \in Calls : Run(c)
    \/ \E c \in Calls : Callback(c)
    \/ \E c \in Calls : DocMirror(c)
    \/ \E c \in Calls : DocLoad(c)
    \/ \E c \in Calls : DocStore(c)
    \/ \E c \in Calls : DocReturn(c)
    \/ \E c \in Calls : DocRemove(c)
    \/ \E c \in Calls : DocReturnAll(c)
    \/ \E c \in Calls : AwaitBoth(c)

SpecBoth == Init /\ [][NextBoth]_vars

\* Calls of all five operations, one after the other, on a database whose
\* statements may fail.  The database takes every queued statement, running
\* it or reporting an error, and the event loop runs the callback of every
\* finished statement: weak fairness on both, per call.
NextLive ==
    \/ \E c \in Calls : Quiet /\ Call(c, { "users" }, Keys, { Num(42), Undefined })
    \/ \E c \in Calls : Run(c)
    \/ \E c \in Calls : RunFail(c)
    \/ \E c \in Calls : Callback(c)
    \/ \E c \in Calls : Await(c)

SpecLive ==
    /\ Init /\ [][NextLive]_vars
    /\ \A c \in Calls : WF_vars(Run(c) \/ RunFail(c)) /\ WF_vars(Callback(c))

\* The Document Backend under concurrent requests, with and without the lock.
SpecDocumentLocked == Init /\ [][NextDocument]_vars

InitUnlocked == InitIndexed /\ InitDocument /\ locking = FALSE

SpecDocumentUnlocked == InitUnlocked /\ [][NextDocument]_vars

(***************************************************************************)
(* Claims.                                                                 *)
(***************************************************************************)
SettledGet(c) ==
    calls[c].pc = "settled" /\ calls[c].op = "getValue" /\ calls[c].hasKey

SettledGetAll(c) ==
    calls[c].pc = "settled" /\ calls[c].op = "getValue" /\ ~calls[c].hasKey

SettledSet(c) ==
    calls[c].pc = "settled" /\ calls[c].op = "setValue"

\* What getValue(namespace, key) resolves when its statement runs now.
Read(namespace, key) == RowResult(SelectValue(table, namespace, key))

\* C1: under sequential use, getValue(ns, k) resolves the value of the most
\* recent setValue(ns, k, v) not followed by a deleteValue(ns, k) or a
\* deleteNamespace(ns), and undefined when there is none (exp holds exactly
\* that outcome, taken from the calls made before the read).  A setValue of
\* undefined rejects, stores nothing and does not count as a set.
C1_GetReturnsLatestSet ==
    /\ \A c \in Calls :
          SettledGet(c) =>
              /\ calls[c].promise = "resolved"
              /\ Determined(calls[c].exp[calls[c].key])
              /\ calls[c].result \in calls[c].exp[calls[c].key]
    /\ \A c \in Calls :
          SettledSet(c) =>
              (calls[c].promise = "rejected") = (calls[c].value = Undefined)

\* A read made after setValue(ns, k, "42") was the latest write of its pair
\* has resolved "42".
C1_Witness ==
    \E c \in Calls :
        /\ SettledGet(c)
        /\ calls[c].exp[calls[c].key] = { Str("42") }
        /\ calls[c].result = Str("42")

\* C2: for every JSON-representable value v, a getValue(ns, k) made after
\* setValue(ns, k, v) has resolved, with no write in between, resolves a
\* value equal to v.
C2_RoundTrip ==
    \A c \in Calls : \A v \in CodecValues :
        (SettledGet(c) /\ JSONRepresentable(v) /\ calls[c].exp[calls[c].key] = { v })
            => calls[c].promise = "resolved" /\ calls[c].result = v

\* A nested object has been read back as it was set.
C2_Witness ==
    \E c \in Calls :
        /\ SettledGet(c)
        /\ calls[c].exp[calls[c].key]
             = { Obj(<< Field("a", Num(42)), Field("b", Arr(<< True >>)) >>) }
        /\ calls[c].result = Obj(<< Field("a", Num(42)), Field("b", Arr(<< True >>)) >>)

\* C3: concurrent setValue calls on distinct keys of one namespace all
\* resolve, and once such a call has settled its key reads the value it
\* wrote (as long as no other call writes that key), in the table and in
\* every read made afterwards.
C3_NoLostWrite ==
    /\ \A c \in Calls :
          (SettledSet(c) /\ JSONRepresentable(calls[c].value)) =>
              /\ calls[c].promise = "resolved"
              /\ (possible[<< calls[c].namespace, calls[c].key >>] = { calls[c].value }
                  /\ ~WriterInFlight(calls[c].namespace, calls[c].key))
                    => Read(calls[c].namespace, calls[c].key) = calls[c].value
    /\ \A g \in Calls :
          (SettledGet(g) /\ Determined(calls[g].exp[calls[g].key]))
              => calls[g].result \in calls[g].exp[calls[g].key]

\* Two overlapping setValue calls on the two keys have settled and a later
\* read has returned the value written to its key.
C3_Witness ==
    \E c1, c2, g \in Calls :
        /\ SettledSet(c1) /\ SettledSet(c2)
        /\ calls[c1].overlapped /\ calls[c2].overlapped
        /\ calls[c1].namespace = calls[c2].namespace
        /\ calls[c1].key # calls[c2].key
        /\ Read(calls[c1].namespace, calls[c1].key) = calls[c1].value
        /\ Read(calls[c2].namespace, calls[c2].key) = calls[c2].value
        /\ calls[c1].value = Num(42) /\ calls[c2].value = Str("42")
        /\ SettledGet(g) /\ ~calls[g].overlapped
        /\ calls[g].key = calls[c2].key /\ calls[g].result = Str("42")

\* The set calls made on a key, in whatever phase.
DocSetsOn(namespace, key) ==
    { d \in Calls : /\ docCalls[d].op = "set"
                    /\ docCalls[d].namespace = namespace
                    /\ docCalls[d].key = key }

DocSettledSet(c) == docCalls[c].pc = "settled" /\ docCalls[c].op = "set"

DocRead(namespace, key) == DocGet(Decode(doc).value, namespace, key)

Listed(list, namespace) == \E i \in DOMAIN list : list[i] = namespace

\* The history says the namespace holds an entry / holds none.
HoldsEntry(namespace) ==
    \E k \in Keys : /\ Determined(possible[<< namespace, k >>])
                    /\ possible[<< namespace, k >>] # { Undefined }

HoldsNone(namespace) ==
    \A k \in Keys : possible[<< namespace, k >>] = { Undefined }

\* C6: Indexed Backend, concurrent setValue calls on one pair: once no writer
\* of a pair is in flight there is exactly one row for it and it reads as
\* the value of one of the calls that wrote it; a pair the calls did not
\* write keeps its one outcome.
C6_LastWriteWins ==
    \A ns \in Namespaces, k \in Keys :
        (~WriterInFlight(ns, k) /\ AnyOutcome \notin possible[<< ns, k >>]) =>
            /\ Cardinality(SelectValue(table, ns, k)) <= 1
            /\ Read(ns, k) \in possible[<< ns, k >>]
            /\ Undefined \notin possible[<< ns, k >>]
                 => Cardinality(SelectValue(table, ns, k)) = 1

\* Two overlapping setValue calls with different values on one pair have
\* settled, the pair has one row holding one of the two values, and the
\* other key still reads the value an earlier call gave it.
C6_Witness ==
    \E c1, c2, c3 \in Calls :
        /\ SettledSet(c1) /\ SettledSet(c2) /\ SettledSet(c3)
        /\ calls[c1].overlapped /\ calls[c2].overlapped /\ ~calls[c3].overlapped
        /\ calls[c1].key = calls[c2].key /\ calls[c3].key # calls[c1].key
        /\ calls[c1].value = Num(42) /\ calls[c2].value = Str("42")
        /\ possible[<< "users", calls[c1].key >>] = { Num(42), Str("42") }
        /\ Cardinality(SelectValue(table, "users", calls[c1].key)) = 1
        /\ Read("users", calls[c1].key) = Num(42)
        /\ calls[c3].value = Str("42")
        /\ Read("users", calls[c3].key) = Str("42")

\* C7: under sequential use getNamespaces() resolves the namespaces that
\* hold at least one entry, each once, in ascending order: a namespace whose
\* keys are all unset or deleted is not listed, one with a key set is.
C7_NamespacesListed ==
    \A c \in Calls :
        (calls[c].pc = "settled" /\ calls[c].op = "getNamespaces") =>
            /\ calls[c].promise = "resolved"
            /\ \A i, j \in DOMAIN calls[c].list :
                  i < j => Rank(calls[c].list[i]) < Rank(calls[c].list[j])
            /\ \A ns \in Namespaces :
                  /\ HoldsEntry(ns) => Listed(calls[c].list, ns)
                  /\ HoldsNone(ns) => ~Listed(calls[c].list, ns)

\* getNamespaces() has resolved both namespaces, in order.
C7_Witness ==
    \E c \in Calls :
        /\ calls[c].pc = "settled" /\ calls[c].op = "getNamespaces"
        /\ HoldsEntry("orders") /\ HoldsEntry("users")
        /\ calls[c].list = << "orders", "users" >>

\* C8: when a deleteValue has removed a row and, by the calls made, its
\* namespace holds no entry any more, getNamespaces() does not list the
\* namespace and getValue(ns) gives the empty mapping, while every namespace
\* that still holds an entry is listed.
C8_NamespacePruned ==
    \A c \in Calls :
        (/\ calls[c].pc = "settled" /\ calls[c].op = "deleteValue"
         /\ calls[c].changes >= 1
         /\ HoldsNone(calls[c].namespace)) =>
            /\ calls[c].promise = "resolved"
            /\ ~Listed(SelectDistinctNamespaces(table), calls[c].namespace)
            /\ RowsResult(SelectNamespace(table, calls[c].namespace)) = << >>
            /\ \A ns \in Namespaces :
                  HoldsEntry(ns) => Listed(SelectDistinctNamespaces(table), ns)

\* A deleteValue has removed the last row of its namespace while the other
\* namespace holds the same key.
C8_Witness ==
    \E c \in Calls : \E other \in Namespaces :
        /\ calls[c].pc = "settled" /\ calls[c].op = "deleteValue"
        /\ calls[c].changes = 1
        /\ HoldsNone(calls[c].namespace)
        /\ other # calls[c].namespace
        /\ possible[<< other, calls[c].key >>] = { Num(42) }
        /\ SelectDistinctNamespaces(table) = << other >>

\* C9: getValue(ns, k) resolves undefined, and does not reject, whenever the
\* pair has no row: when the namespace has no row at all and when it has
\* rows under other keys.
C9_AbsentAlike ==
    \A c \in Calls :
        (SettledGet(c) /\ SelectValue(table, calls[c].namespace, calls[c].key) = {}) =>
            /\ calls[c].promise = "resolved"
            /\ calls[c].result = Undefined

\* A read of a missing key has resolved undefined in a namespace that exists.
C9_Witness ==
    \E c \in Calls :
        /\ SettledGet(c)
        /\ SelectValue(table, calls[c].namespace, calls[c].key) = {}
        /\ SelectNamespace(table, calls[c].namespace) # {}
        /\ calls[c].promise = "resolved" /\ calls[c].result = Undefined

\* C10: under sequential use getValue(ns) resolves a mapping whose keys are
\* exactly the keys stored under ns, each with its value, and the empty
\* mapping for a namespace without entries.
C10_GetAllReturnsEveryKey ==
    \A c \in Calls :
        SettledGetAll(c) =>
            /\ calls[c].promise = "resolved"
            /\ \A k \in Keys :
                  /\ calls[c].exp[k] = { Undefined } => k \notin DOMAIN calls[c].mapping
                  /\ (Determined(calls[c].exp[k]) /\ calls[c].exp[k] # { Undefined })
                       => /\ k \in DOMAIN calls[c].mapping
                          /\ calls[c].mapping[k] \in calls[c].exp[k]

\* The statement of caller c runs in this step / its callback runs in it.
Executes(c, op) ==
    calls[c].pc = "queued" /\ calls[c].op = op /\ calls'[c].pc = "executed"

Settles(c, op) ==
    calls[c].pc = "executed" /\ calls[c].op = op /\ calls'[c].pc = "settled"

SettledCall(c, op) == calls[c].pc = "settled" /\ calls[c].op = op

\* C11: the statement of deleteValue(ns1, k) leaves no row for (ns1, k) and
\* leaves the rows of every other pair as they were: the other keys of ns1
\* and every key of every other namespace, k included.
C11_DeleteValueFrame ==
    [][\A c \in Calls :
          Executes(c, "deleteValue") =>
              \A ns \in Namespaces, k \in Keys :
                  IF ns = calls[c].namespace /\ k = calls[c].key
                  THEN SelectValue(table', ns, k) = {}
                  ELSE SelectValue(table', ns, k) = SelectValue(table, ns, k)]_vars

\* A deleteValue has removed its row while the same key in the other
\* namespace and the other key of its own namespace still read their values.
C11_Witness ==
    \E c \in Calls : \E ns2 \in Namespaces, k2 \in Keys :
        /\ SettledCall(c, "deleteValue") /\ calls[c].changes = 1
        /\ ns2 # calls[c].namespace /\ k2 # calls[c].key
        /\ Read(calls[c].namespace, calls[c].key) = Undefined
        /\ Read(ns2, calls[c].key) = Num(42)
        /\ Read(calls[c].namespace, k2) = Str("42")

\* C12: the statement of deleteNamespace(ns) leaves no row under ns, so that
\* getValue(ns) gives the empty mapping and getNamespaces() does not list ns,
\* and leaves the rows of every other namespace as they were.
C12_DeleteNamespaceFrame ==
    [][\A c \in Calls :
          Executes(c, "deleteNamespace") =>
              /\ RowsResult(SelectNamespace(table', calls[c].namespace)) = << >>
              /\ ~Listed(SelectDistinctNamespaces(table'), calls[c].namespace)
              /\ \A ns \in Namespaces \ { calls[c].namespace } :
                    SelectNamespace(table', ns) = SelectNamespace(table, ns)]_vars

\* A deleteNamespace has removed the two rows of its namespace and the other
\* namespace is still listed.
C12_Witness ==
    \E c \in Calls : \E ns2 \in Namespaces :
        /\ SettledCall(c, "deleteNamespace") /\ calls[c].changes = 2
        /\ calls[c].promise = "resolved"
        /\ ns2 # calls[c].namespace
        /\ SelectDistinctNamespaces(table) = << ns2 >>

\* C13: deleteValue(ns, k) on a pair without a row changes no row and
\* resolves, whether ns has no row at all or rows under other keys.
C13_DeleteAbsentValue ==
    [][\A c \in Calls :
          /\ (Executes(c, "deleteValue")
                /\ SelectValue(table, calls[c].namespace, calls[c].key) = {})
               => table' = table /\ ~calls'[c].error /\ calls'[c].changes = 0
          /\ (Settles(c, "deleteValue") /\ calls[c].changes = 0)
               => calls'[c].promise = "resolved"]_vars

\* A deleteValue of a missing key has resolved in a namespace that has rows.
C13_Witness ==
    \E c \in Calls :
        /\ SettledCall(c, "deleteValue") /\ calls[c].changes = 0
        /\ calls[c].promise = "resolved"
        /\ SelectNamespace(table, calls[c].namespace) # {}

\* C14: deleteNamespace(ns) on a namespace without rows changes no row and
\* resolves; and after any deleteNamespace(ns) a second one would change no
\* row (idempotence).
C14_DeleteNamespaceIdempotent ==
    [][\A c \in Calls :
          /\ (Executes(c, "deleteNamespace")
                /\ SelectNamespace(table, calls[c].namespace) = {})
               => table' = table /\ ~calls'[c].error /\ calls'[c].changes = 0
          /\ Executes(c, "deleteNamespace")
               => DeleteRows(table', calls[c].namespace) = table'
          /\ Settles(c, "deleteNamespace") => calls'[c].promise = "resolved"]_vars

\* A deleteNamespace of a namespace without rows has resolved while the
\* other namespace holds a row.
C14_Witness ==
    \E c \in Calls :
        /\ SettledCall(c, "deleteNamespace") /\ calls[c].changes = 0
        /\ calls[c].promise = "resolved"
        /\ table # {}

\* The rows a settled getValue has read (no write runs while it is settled).
RowsRead(c) ==
    IF calls[c].hasKey
    THEN SelectValue(table, calls[c].namespace, calls[c].key)
    ELSE SelectNamespace(table, calls[c].namespace)

\* C15: a getValue, with or without key, that has read a row whose value
\* text is not valid JSON rejects.
C15_MalformedReadRejects ==
    \A c \in Calls :
        (SettledCall(c, "getValue")
          /\ \E r \in RowsRead(c) : ~JSONparse(r.value).ok)
            => calls[c].promise = "rejected"

\* C16: whenever the database has reported an error for the statement of a
\* call (any of the five operations), the call does nothing more than settle,
\* its promise rejects, and no statement is run again: the table is left as
\* the failed statement left it.
C16_FailurePropagates ==
    [][\A c \in Calls :
          (calls[c].pc = "executed" /\ calls[c].error) =>
              /\ calls'[c].pc \in { "executed", "settled" }
              /\ calls'[c].pc = "settled" =>
                    /\ calls'[c].promise = "rejected"
                    /\ calls'[c].op = calls[c].op
                    /\ table' = table]_vars

\* A deleteNamespace whose statement failed has rejected and the rows of its
\* namespace are still there.
C16_Witness ==
    \E c \in Calls :
        /\ SettledCall(c, "deleteNamespace")
        /\ calls[c].error /\ calls[c].promise = "rejected"
        /\ SelectNamespace(table, calls[c].namespace) # {}

\* A request that has been answered, and the JSON value of its body.
Responded(c) == calls[c].pc = "responded"

ResponseBody(c) == JSONparse(calls[c].response.body)

HasField(obj, k) == \E i \in DOMAIN obj.fields : obj.fields[i].k = k

FieldValue(obj, k) == obj.fields[CHOOSE i \in DOMAIN obj.fields : obj.fields[i].k = k].v

\* C17: every answered request has status 500 and a JSON object with just
\* an `error` message when its storage call rejected, and status 200 and a
\* JSON object without `error` when it resolved; no other answer exists.
C17_RouteAnswers ==
    \A c \in Calls :
        Responded(c) =>
            LET r == calls[c].response
                b == ResponseBody(c)
            IN /\ calls[c].promise \in { "resolved", "rejected" }
               /\ b.ok /\ b.value.t = "object"
               /\ (calls[c].promise = "rejected") =>
                     /\ r.status = 500
                     /\ Len(b.value.fields) = 1
                     /\ HasField(b.value, "error")
                     /\ FieldValue(b.value, "error").t = "string"
               /\ (calls[c].promise = "resolved") =>
                     /\ r.status = 200
                     /\ ~HasField(b.value, "error")
                     /\ b.value = JSONparse(JSONstringify(Payload(calls[c])).text).value

\* GET /api/orders has been answered 500 with an error message while the
\* namespace holds a row.
C17_Witness ==
    \E c \in Calls :
        /\ Responded(c) /\ calls[c].response.route = "GET /:namespace"
        /\ calls[c].promise = "rejected"
        /\ calls[c].response.status = 500
        /\ FieldValue(ResponseBody(c).value, "error") = Str("Failed to get value")
        /\ SelectNamespace(table, calls[c].namespace) # {}

\* C18: a POST whose body has no `value` field is answered 200 with the
\* message 'Value set successfully'.
C18_PostWithoutValue ==
    \A c \in Calls :
        (Responded(c) /\ calls[c].op = "setValue" /\ calls[c].value = Undefined) =>
            /\ calls[c].response.status = 200
            /\ HasField(ResponseBody(c).value, "message")
            /\ FieldValue(ResponseBody(c).value, "message") = Str("Value set successfully")

\* C19: GET /api/{namespace}/{key} for a pair without a row is answered 200
\* with a JSON object that has no `value` property.
C19_GetAbsentAnswer ==
    \A c \in Calls :
        (/\ Responded(c) /\ calls[c].op = "getValue" /\ calls[c].hasKey
         /\ SelectValue(table, calls[c].namespace, calls[c].key) = {}) =>
            /\ calls[c].response.status = 200
            /\ ResponseBody(c).ok
            /\ ResponseBody(c).value.t = "object"
            /\ ~HasField(ResponseBody(c).value, "value")

\* GET for a missing key of a namespace that has rows has been answered 200
\* with the body {}.
C19_Witness ==
    \E c \in Calls :
        /\ Responded(c) /\ calls[c].op = "getValue" /\ calls[c].hasKey
        /\ SelectValue(table, calls[c].namespace, calls[c].key) = {}
        /\ SelectNamespace(table, calls[c].namespace) # {}
        /\ calls[c].response.status = 200
        /\ calls[c].response.body = << Punct("{"), Punct("}") >>

\* C20: GET /api/{namespace} reports count = the number of keys stored under
\* the namespace (0 when it has none), and GET /api reports count = the
\* number of namespaces that hold an entry.
C20_CountsAgree ==
    \A c \in Calls :
        (Responded(c) /\ calls[c].response.status = 200) =>
            /\ calls[c].response.route = "GET /:namespace" =>
                  FieldValue(ResponseBody(c).value, "count")
                    = Num(Cardinality(SelectNamespace(table, calls[c].namespace)))
            /\ calls[c].response.route = "GET /" =>
                  FieldValue(ResponseBody(c).value, "count")
                    = Num(Cardinality({ r.namespace : r \in table }))

\* The entries of an object, as a mapping from key to value.
AsMapping(obj) ==
    [k \in { obj.fields[i].k : i \in DOMAIN obj.fields } |-> FieldValue(obj, k)]

C22_KeyUnique ==
    \A ns \in Namespaces, k \in Keys : Cardinality(SelectValue(table, ns, k)) <= 1

\* Two setValue calls with different values on one pair have settled and the
\* pair has the one row of the later statement.
C22_Witness ==
    \E c1, c2 \in Calls :
        /\ SettledSet(c1) /\ SettledSet(c2)
        /\ calls[c1].namespace = calls[c2].namespace /\ calls[c1].key = calls[c2].key
        /\ calls[c1].value # calls[c2].value
        /\ SelectValue(table, calls[c1].namespace, calls[c1].key)
             = { Row(calls[c1].namespace, calls[c1].key, JSONstringify(Str("42")).text) }

\* C23: the promise of every call, of any of the five operations, is
\* eventually resolved or rejected, and once it is one of the two it is never
\* the other: it stays so until the caller has taken it.
C23_PromiseSettlesOnce ==
    /\ \A c \in Calls :
          (calls[c].promise = "pending")
              ~> (calls[c].promise \in { "resolved", "rejected" })
    /\ [][\A c \in Calls :
            calls[c].promise \in { "resolved", "rejected" }
                => calls'[c].promise \in { calls[c].promise, "none" }]_vars

\* A getNamespaces whose statement failed has rejected while the table holds
\* a row.
C23_Witness ==
    \E c \in Calls :
        /\ calls[c].pc = "settled" /\ calls[c].op = "getNamespaces"
        /\ calls[c].error /\ calls[c].promise = "rejected"
        /\ table # {}

\* A request answered without a storage call, in this step.
Answered(c) == calls[c].pc = "idle" /\ calls'[c].pc = "responded"

\* C24: a request whose method and path match no route is answered with
\* status 404 and the body { error: 'Route not found', path: <the URL> },
\* and the table is left as it was.
C24_UnmatchedIs404 ==
    [][\A c \in Calls :
         (Answered(c) /\ MatchRoute(calls'[c].request) = 0) =>
            /\ calls'[c].response.status = 404
            /\ JSONparse(calls'[c].response.body) =
                 [ok |-> TRUE,
                  value |-> Obj(<< Field("error", Str("Route not found")),
                                   Field("path", Str(OriginalUrl(calls'[c].request.path))) >>)]
            /\ table' = table]_vars

\* C25: a POST /api/{namespace}/{key} whose JSON body is malformed is
\* answered with status 400, and no row is written.
C25_MalformedBodyIs400 ==
    [][\A c \in Calls :
         (/\ Answered(c)
          /\ calls'[c].request.method = "POST"
          /\ MatchRoute(calls'[c].request) # 0
          /\ ~ExpressJson(calls'[c].request.body).ok) =>
            /\ calls'[c].response.status = 400
            /\ table' = table]_vars

\* C26: GET /api/{namespace} is answered with the body
\* { message: 'Welcome to the C-Store API', status: 'API is running successfully!' }.
C26_NamespaceWelcome ==
    \A c \in Calls :
        (Responded(c) /\ calls[c].response.route = "GET /:namespace") =>
            ResponseBody(c) =
                [ok |-> TRUE,
                 value |-> Obj(<< Field("message", Str("Welcome to the C-Store API")),
                                  Field("status", Str("API is running successfully!")) >>)]

ListedIn(t) ==
    LET list == SelectDistinctNamespaces(t) IN { list[i] : i \in DOMAIN list }

\* C28: in no step of a setValue(ns, k, v) does the row of another pair
\* change, in the namespace ns or in another, and the listed namespaces
\* change at most by gaining ns.
C28_SetValueFrame ==
    [][\A c \in Calls :
          (calls[c].op = "setValue" /\ calls'[c] # calls[c]) =>
              /\ \A ns \in Namespaces, k \in Keys :
                    (ns # calls[c].namespace \/ k # calls[c].key) =>
                        SelectValue(table', ns, k) = SelectValue(table, ns, k)
              /\ ListedIn(table) \subseteq ListedIn(table')
              /\ ListedIn(table') \subseteq ListedIn(table) \cup { calls[c].namespace }]_vars

\* A setValue has written its row while the other key of its namespace and
\* its key in the other namespace hold their values.
C28_Witness ==
    \E c \in Calls : \E ns2 \in Namespaces, k2 \in Keys :
        /\ SettledCall(c, "setValue") /\ calls[c].promise = "resolved"
        /\ ns2 # calls[c].namespace /\ k2 # calls[c].key
        /\ Read(calls[c].namespace, calls[c].key) = Num(42)
        /\ Read(calls[c].namespace, k2) = Str("42")
        /\ Read(ns2, calls[c].key) = Str("42")
        /\ ListedIn(table) = Namespaces

\* The values written to (users, john) by the setValue calls whose statement
\* has run.
Overwritten ==
    { calls[d].value : d \in { e \in Calls :
          /\ calls[e].op = "setValue" /\ calls[e].key = "john"
          /\ calls[e].pc \in { "executed", "settled" } } }

\* C29: while setValue calls overwrite the existing entry (users, john) = 42,
\* the entry is there in every state, a concurrent getValue("users", "john")
\* resolves with 42 or with a value an overwrite has written, never with
\* undefined, and a concurrent getNamespaces() lists "users".
C29_OverwriteAtomic ==
    /\ Cardinality(SelectValue(table, "users", "john")) = 1
    /\ \A c \in Calls :
          (SettledCall(c, "getValue") /\ calls[c].key = "john") =>
              /\ calls[c].promise = "resolved"
              /\ calls[c].result # Undefined
              /\ calls[c].result \in { Num(42) } \cup Overwritten
    /\ \A c \in Calls :
          SettledCall(c, "getNamespaces") =>
              calls[c].promise = "resolved" /\ Listed(calls[c].list, "users")

\* A read made while an overwrite with "42" was in flight has returned 42,
\* a namespace listing made meanwhile lists users, and the overwrite has not
\* run yet.
C29_Witness ==
    \E c, d, g \in Calls :
        /\ SettledCall(c, "getValue") /\ calls[c].key = "john" /\ calls[c].overlapped
        /\ calls[c].result = Num(42)
        /\ calls[d].op = "setValue" /\ calls[d].key = "john"
        /\ calls[d].value = Str("42") /\ calls[d].pc = "queued" /\ d < c
        /\ SettledCall(g, "getNamespaces") /\ calls[g].overlapped
        /\ Listed(calls[g].list, "users")

\* C30: a setValue, deleteValue or deleteNamespace rejects only when its
\* statement reported an error, that statement leaves the table as it was,
\* and no other step of the call writes: the table after a rejected call is
\* the table before it.
C30_NoPartialWrite ==
    [][\A c \in Calls :
          ((Mutates(calls[c]) \/ Mutates(calls'[c])) /\ calls'[c] # calls[c]) =>
              /\ (calls'[c].pc = "settled" /\ calls'[c].promise = "rejected")
                    => calls[c].error
              /\ (calls'[c].pc = "executed" /\ calls'[c].error) => table' = table
              /\ calls[c].pc # "queued" => table' = table]_vars

\* A setValue of 42 whose statement failed has rejected, and the pair still
\* reads the "42" it held before.
C30_Witness ==
    \E c \in Calls :
        /\ SettledCall(c, "setValue") /\ calls[c].value = Num(42)
        /\ calls[c].error /\ calls[c].promise = "rejected"
        /\ Read(calls[c].namespace, calls[c].key) = Str("42")

\* The dataset a table stands for: the value texts held by each pair.
Dataset(t) ==
    [pk \in Namespaces \X Keys |->
        { r.value : r \in { x \in t : x.namespace = pk[1] /\ x.key = pk[2] } }]

\* What one operation, run alone, makes of dataset D.
Sequential(call, D) ==
    CASE call.op = "setValue" /\ call.jsonValue.defined ->
           [D EXCEPT ![<< call.namespace, call.key >>] = { call.jsonValue.text }]
      [] call.op = "deleteValue" ->
           [D EXCEPT ![<< call.namespace, call.key >>] = {}]
      [] call.op = "deleteNamespace" ->
           [pk \in Namespaces \X Keys |-> IF pk[1] = call.namespace THEN {} ELSE D[pk]]
      [] OTHER -> D

\* The statement of call c reads, in this step, what dataset D holds.
ReadsFrom(c, D) ==
    CASE calls[c].op = "getValue" /\ calls[c].hasKey ->
           { r.value : r \in calls'[c].rows } = D[<< calls[c].namespace, calls[c].key >>]
      [] calls[c].op = "getValue" /\ ~calls[c].hasKey ->
           { << r.key, r.value >> : r \in calls'[c].rows } =
               { kv \in Keys \X UNION { D[pk] : pk \in Namespaces \X Keys } :
                    kv[2] \in D[<< calls[c].namespace, kv[1] >>] }
      [] calls[c].op = "getNamespaces" ->
           /\ { calls'[c].list[i] : i \in DOMAIN calls'[c].list } =
                  { ns \in Namespaces : \E k \in Keys : D[<< ns, k >>] # {} }
           /\ \A i, j \in DOMAIN calls'[c].list :
                  i < j => Rank(calls'[c].list[i]) < Rank(calls'[c].list[j])
      [] OTHER -> TRUE

\* C31: concurrent executions of the five operations are linearizable, each
\* call taking effect at the step of its statement, between its invocation
\* and its completion: that step makes of the dataset what the operation
\* run alone makes of it and reads what the dataset then holds, the call
\* completes with the result of that read, and no other step changes the
\* dataset.
C31_Linearizable ==
    [][/\ \A c \in Calls :
            /\ calls[c].pc = "queued" => calls'[c].pc \in { "queued", "executed" }
            /\ calls[c].pc = "executed" => calls'[c].pc \in { "executed", "settled" }
            /\ (calls[c].pc = "queued" /\ calls'[c].pc = "executed") =>
                  /\ ~calls'[c].error
                  /\ Dataset(table') = Sequential(calls[c], Dataset(table))
                  /\ ReadsFrom(c, Dataset(table))
                  /\ \A d \in Calls \ { c } : calls'[d].pc = calls[d].pc
            /\ (calls[c].pc = "executed" /\ calls'[c].pc = "settled") =>
                  /\ calls'[c].promise = "resolved"
                  /\ calls'[c].result =
                        IF calls[c].op = "getValue" /\ calls[c].hasKey
                        THEN RowResult(calls[c].rows) ELSE Undefined
                  /\ calls'[c].mapping =
                        IF calls[c].op = "getValue" /\ ~calls[c].hasKey
                        THEN RowsResult(calls[c].rows) ELSE << >>
                  /\ calls'[c].list = calls[c].list
       /\ (\A c \in Calls : ~(calls[c].pc = "queued" /\ calls'[c].pc = "executed"))
             => table' = table
       /\ \A r1, r2 \in table' :
             (r1.namespace = r2.namespace /\ r1.key = r2.key) => r1 = r2]_vars

\* Three overlapping calls have completed: a setValue, a deleteNamespace that
\* removed its row, and a getValue(ns) that returned the entry although the
\* namespace is empty by now.
C31_Witness ==
    \E c, d, g \in Calls :
        /\ SettledCall(c, "setValue") /\ calls[c].overlapped /\ calls[c].key = "john"
        /\ SettledCall(d, "deleteNamespace") /\ calls[d].overlapped /\ calls[d].changes = 1
        /\ SettledCall(g, "getValue") /\ ~calls[g].hasKey /\ calls[g].overlapped
        /\ DOMAIN calls[g].mapping = { "john" }
        /\ table = {}

\* A getValue(ns) that has returned, and one that has returned the empty mapping.
ReturnedAll(c) ==
    SettledCall(c, "getValue") /\ ~calls[c].hasKey /\ calls[c].promise = "resolved"

ReturnedEmpty(c) == ReturnedAll(c) /\ DOMAIN calls[c].mapping = {}

\* C32: while deleteNamespace("users") runs on a namespace that holds john and
\* __proto__ and nothing else writes, a getValue("users") returns both entries
\* or the empty mapping, and once one has returned the empty mapping the
\* query of getNamespaces no longer lists users.
C32_DeleteNamespaceAtomic ==
    /\ \A c \in Calls :
          ReturnedAll(c) =>
              \/ DOMAIN calls[c].mapping = {}
              \/ /\ DOMAIN calls[c].mapping = { "john", "__proto__" }
                 /\ calls[c].mapping["john"] = Num(42)
                 /\ calls[c].mapping["__proto__"] = Str("42")
    /\ (\E c \in Calls : ReturnedEmpty(c)) => "users" \notin ListedIn(table)

IsRead(call) == call.op \in { "getValue", "getNamespaces" }

\* C33: no step of a getValue (with or without key) or of a getNamespaces
\* changes the table, whether the call resolves or rejects, and a read that
\* has resolved holds what the same read made again would return.
C33_ReadsAreReadOnly ==
    /\ [][\A c \in Calls :
            ((IsRead(calls[c]) \/ IsRead(calls'[c])) /\ calls'[c] # calls[c])
                => table' = table]_vars
    /\ [](\A c \in Calls :
            (calls[c].pc = "settled" /\ IsRead(calls[c]) /\ calls[c].promise = "resolved") =>
                CASE calls[c].op = "getNamespaces" ->
                       calls[c].list = SelectDistinctNamespaces(table)
                  [] calls[c].hasKey ->
                       calls[c].result = Read(calls[c].namespace, calls[c].key)
                  [] OTHER ->
                       calls[c].mapping =
                           RowsResult(SelectNamespace(table, calls[c].namespace)))

\* A getValue(ns) whose statement failed has rejected, and the rows of its
\* namespace are all there.
C33_Witness ==
    \E c \in Calls :
        /\ SettledCall(c, "getValue") /\ ~calls[c].hasKey
        /\ calls[c].error /\ calls[c].promise = "rejected"
        /\ Cardinality(SelectNamespace(table, calls[c].namespace)) = 2

\* C34: from an empty table and with the storage operations alone, the value
\* text of every row is valid JSON in every state, and no getValue returns
\* the undecoded text of a row.
C34_StoredTextIsJSON ==
    /\ \A r \in table : JSONparse(r.value).ok
    /\ \A c \in Calls :
          /\ \A r \in calls[c].rows : JSONparse(r.value).ok
          /\ calls[c].result.t # "text"
          /\ \A k \in DOMAIN calls[c].mapping : calls[c].mapping[k].t # "text"

\* The string "null" is stored as a quoted text, and a getValue(ns) has
\* returned it as a string.
C34_Witness ==
    \E c \in Calls :
        /\ SettledCall(c, "getValue") /\ ~calls[c].hasKey
        /\ DOMAIN calls[c].mapping = { "john" }
        /\ calls[c].mapping["john"] = Str("null")
        /\ table = { Row("users", "john", << StrTok("null") >>) }

SetsUndefined(call) == call.op = "setValue" /\ call.value = Undefined

CloseResolved ==
    \E c \in Calls :
        calls[c].op = "close" /\ calls[c].pc = "settled" /\ calls[c].promise = "resolved"

\* C36: once a close() has resolved, no step changes the table, and every
\* setValue, getValue, deleteValue, getNamespaces and deleteNamespace call
\* that settles has rejected and carries no data.
C36_ClosedRejects ==
    [][CloseResolved =>
          /\ table' = table
          /\ \A c \in Calls :
                (calls'[c].pc = "settled" /\ calls'[c].op # "close") =>
                    /\ calls'[c].promise = "rejected"
                    /\ calls'[c].result = Undefined
                    /\ calls'[c].mapping = << >>
                    /\ calls'[c].list = << >>]_vars

\* After a close() has resolved, a getValue(ns) has rejected although the
\* table holds both rows of its namespace.
C36_Witness ==
    \E c \in Calls :
        /\ CloseResolved
        /\ SettledCall(c, "getValue") /\ ~calls[c].hasKey
        /\ calls[c].promise = "rejected"
        /\ Cardinality(SelectNamespace(table, calls[c].namespace)) = 2

================================================================
